---------------------------- MODULE Spec2Model ----------------------------
(***************************************************************************)
(* decimal.js-extensions: the Decimal <-> ArrayBuffer codec (serialize)    *)
(* and the expression evaluator (evaluate), as state machines.             *)
(*                                                                         *)
(* JavaScript values that are not integers are represented by integers     *)
(* that no computation of the model produces: NaN, undefined, and a null   *)
(* digits reference (a one-element sequence holding nullMark).             *)
(***************************************************************************)
EXTENDS Integers, Sequences, FiniteSets, TLC

(***************************************************************************)
(* Constants of the serialize extension.                                   *)
(***************************************************************************)
BASE == 10000000
BYTES_MASK == 255
SIX_LSB_MASK == 63
NEG_SIGN_BIT == 128
NEG_EXPONENT_SIGN_BIT == 64
SMALL_INTEGER_BIT == NEG_EXPONENT_SIGN_BIT
ALL_NINES == BASE - 1
ALL_ZEROS == 0
NINES_SIGNIFIER == BASE + 1
ZEROS_SIGNIFIER == BASE
INFINITY_BYTE == 127
NEG_INFINITY_BYTE == 255
NAN_BYTE == 64
RADIX == BASE + 2
EXPONENT_OFFSET == 7
MAX_SMALL_EXPONENT == 30
MAX_SMALL_INTEGER == 50
MAX_SMALLER_INTEGER == 25
SMALL_INTEGER_OFFSET == 37 - 25
SMALLER_INTEGER_OFFSET == 38

(***************************************************************************)
(* JavaScript's NaN, undefined and null.                                   *)
(***************************************************************************)
NaN == -1000000001
undefined == -1000000002
nullMark == -1000000003
null == <<nullMark>>

isNaN(v) == v = NaN \/ v = undefined

(***************************************************************************)
(* Bounds of the model.  maxE is the host's configured exponent limit      *)
(* (Decimal.maxE), minE its negation as in the host's default.             *)
(***************************************************************************)
maxE == 66000
minE == 0 - maxE
MaxLimbs == 5
MaxInteger == 52
MaxRawTail == 3
MaxRunaway == 2

(***************************************************************************)
(* Bit operations on bytes, as JavaScript's & and | compute them.          *)
(***************************************************************************)
RECURSIVE BitAnd(_, _)
BitAnd(a, b) ==
    IF a = 0 \/ b = 0 THEN 0
    ELSE (a % 2) * (b % 2) + 2 * BitAnd(a \div 2, b \div 2)

RECURSIVE BitOr(_, _)
BitOr(a, b) ==
    IF a = 0 THEN b
    ELSE IF b = 0 THEN a
    ELSE (IF a % 2 = 1 \/ b % 2 = 1 THEN 1 ELSE 0) + 2 * BitOr(a \div 2, b \div 2)

(***************************************************************************)
(* <<(a * b) \div m, (a * b) % m>>.  The code forms a * b in a double,     *)
(* which holds it exactly; here the product is kept as quotient and        *)
(* remainder by m, built up by doubling.                                   *)
(***************************************************************************)
RECURSIVE Doubling(_, _, _)
Doubling(a, b, m) ==
    IF b = 0 THEN <<0, 0>>
    ELSE LET h == Doubling(a, b \div 2, m)
             t == 2 * h[2] + (b % 2) * a
         IN  <<2 * h[1] + t \div m, t % m>>

MulDivMod(a, b, m) == IF a < b THEN Doubling(b, a, m) ELSE Doubling(a, b, m)

(***************************************************************************)
(* convert(val, valBase, res, resBase, ri): res <- res * valBase + val,    *)
(* where res[ri..] is a little-endian number in base resBase; ri is the    *)
(* 0-based index of its lowest digit.  carry is what the code has added to *)
(* the element at hand: val at ri, the quotient of the element below       *)
(* elsewhere.  An element past the end is created as 0.                    *)
(***************************************************************************)
RECURSIVE Carry(_, _, _, _, _)
Carry(res, k, carry, valBase, resBase) ==
    IF k > Len(res)
    THEN IF carry = 0 THEN <<>>
         ELSE <<carry % resBase>> \o Carry(res, k + 1, carry \div resBase, valBase, resBase)
    ELSE LET p == MulDivMod(res[k], valBase, resBase)
             t == p[2] + carry
         IN  <<t % resBase>> \o Carry(res, k + 1, p[1] + t \div resBase, valBase, resBase)

convert(val, valBase, res, resBase, ri) ==
    SubSeq(res, 1, ri) \o Carry(SubSeq(res, ri + 1, Len(res)), 1, val, valBase, resBase)


(***************************************************************************)
(* JavaScript comparisons: any comparison with NaN is false.               *)
(***************************************************************************)
Lt(a, b) == ~isNaN(a) /\ ~isNaN(b) /\ a < b
Gt(a, b) == ~isNaN(a) /\ ~isNaN(b) /\ a > b
Neg(a) == IF isNaN(a) THEN NaN ELSE 0 - a

\* digits[i], i counted from 0; undefined outside the array.
At(a, i) == IF i >= 0 /\ i < Len(a) THEN a[i + 1] ELSE undefined

RECURSIVE Repeat(_, _)
Repeat(v, n) == IF n <= 0 THEN <<>> ELSE <<v>> \o Repeat(v, n - 1)

(***************************************************************************)
(* toArrayBuffer: the first byte and the exponent bytes.                   *)
(***************************************************************************)
\* Mutant: one exponent byte announced whatever the exponent.
exponentByteCountOne(exponent) == 1

exponentByteCountOf(exponent) ==
    LET hi == exponent \div 16777216
    IN  IF exponent < 256 THEN 1
        ELSE IF exponent < 65536 THEN 2
        ELSE IF exponent < 16777216 THEN 3
        ELSE IF hi < 256 THEN 4
        ELSE IF hi < 65536 THEN 5
        ELSE IF hi < 16777216 THEN 6
        ELSE 7

RECURSIVE exponentBytes(_)
exponentBytes(exponent) ==
    IF exponent = 0 THEN <<>>
    ELSE <<BitAnd(exponent, BYTES_MASK)>> \o exponentBytes(exponent \div 256)

\* Mutant: the small-integer test with < in place of <=.
isSmallIntegerBelow(digits, exponent) ==
    LET firstDigits == At(digits, 0)
    IN  /\ Len(digits) = 1
        /\ firstDigits < MAX_SMALL_INTEGER
        /\ exponent = (IF firstDigits < 10 THEN 0 ELSE 1)

isSmallInteger(digits, exponent) ==
    LET firstDigits == At(digits, 0)
    IN  /\ Len(digits) = 1
        /\ firstDigits <= MAX_SMALL_INTEGER
        /\ exponent = (IF firstDigits < 10 THEN 0 ELSE 1)

\* Mutant: the small-integer byte without its sign bit.
smallIntegerByteUnsigned(firstDigits, sign) ==
    IF firstDigits > MAX_SMALLER_INTEGER
    THEN BitOr(firstDigits + SMALL_INTEGER_OFFSET, SMALL_INTEGER_BIT)
    ELSE firstDigits + SMALLER_INTEGER_OFFSET

smallIntegerByte(firstDigits, sign) ==
    LET firstByte == IF firstDigits > MAX_SMALLER_INTEGER
                     THEN BitOr(firstDigits + SMALL_INTEGER_OFFSET, SMALL_INTEGER_BIT)
                     ELSE firstDigits + SMALLER_INTEGER_OFFSET
    IN  IF Lt(sign, 0) THEN BitOr(firstByte, NEG_SIGN_BIT) ELSE firstByte

\* The bytes before the mantissa: the first byte, then the exponent bytes.
headerBytes(exponent0, sign) ==
    LET signBit == IF Lt(sign, 0) THEN NEG_SIGN_BIT ELSE 0
        firstByte == IF Lt(exponent0, 0) THEN BitOr(signBit, NEG_EXPONENT_SIGN_BIT) ELSE signBit
        exponent == IF Lt(exponent0, 0) THEN 0 - exponent0 ELSE exponent0
    IN  IF Gt(exponent, MAX_SMALL_EXPONENT)
        THEN <<BitOr(firstByte, exponentByteCountOf(exponent))>> \o exponentBytes(exponent)
        ELSE IF exponent # 0 /\ ~isNaN(exponent)
             THEN <<BitOr(firstByte, exponent + EXPONENT_OFFSET)>>
             ELSE <<firstByte>>

(***************************************************************************)
(* toArrayBuffer: the values handed to convert, in order.  A limb 0 or     *)
(* 9999999 that repeats more than twice becomes a signifier and the        *)
(* length of its run.                                                      *)
(***************************************************************************)
\* Mutant: a run is never counted beyond its first three limbs.
repeatCountThree(digits, i, repeatCount) == repeatCount

RECURSIVE repeatCountFrom(_, _, _)
repeatCountFrom(digits, i, repeatCount) ==
    IF At(digits, i + repeatCount) = At(digits, i)
    THEN repeatCountFrom(digits, i, repeatCount + 1)
    ELSE repeatCount

RECURSIVE mantissaTokens(_, _)
mantissaTokens(digits, i) ==
    IF i >= Len(digits) THEN <<>>
    ELSE LET nextDigits == At(digits, i)
             zerosOrNinesRepeatMoreThanTwice ==
                 /\ (nextDigits = ALL_ZEROS \/ nextDigits = ALL_NINES)
                 /\ At(digits, i + 1) = nextDigits
                 /\ At(digits, i + 2) = nextDigits
         IN  IF zerosOrNinesRepeatMoreThanTwice
             THEN LET repeatCount == repeatCountFrom(digits, i, 3)
                  IN  << IF nextDigits = ALL_ZEROS THEN ZEROS_SIGNIFIER
                                                   ELSE NINES_SIGNIFIER,
                         repeatCount >> \o mantissaTokens(digits, i + repeatCount)
             ELSE <<nextDigits>> \o mantissaTokens(digits, i + 1)

RECURSIVE convertAll(_, _, _, _)
convertAll(tokens, k, bytes, startIndex) ==
    IF k > Len(tokens) THEN bytes
    ELSE convertAll(tokens, k + 1, convert(tokens[k], RADIX, bytes, 256, startIndex), startIndex)

(***************************************************************************)
(* toArrayBuffer, of a Decimal [d, e, s].                                  *)
(***************************************************************************)
toArrayBuffer(this) ==
    LET exponent == this.e
        digits == this.d
        sign == this.s
        isSpecialValue == digits = null
    IN  IF isSpecialValue
        THEN << IF isNaN(sign) THEN NAN_BYTE
                ELSE IF Lt(sign, 0) THEN NEG_INFINITY_BYTE ELSE INFINITY_BYTE >>
        ELSE LET firstDigits == At(digits, 0)
             IN  IF isSmallInteger(digits, exponent)
                 THEN <<smallIntegerByte(firstDigits, sign)>>
                 ELSE LET header == headerBytes(exponent, sign)
                          startIndex == Len(header)
                      IN  convertAll(mantissaTokens(digits, 0), 1, header \o <<0>>, startIndex)


(***************************************************************************)
(* fromArrayBuffer: the exponent bytes.  A byte past the end of the buffer *)
(* is undefined and makes the sum NaN.                                     *)
(***************************************************************************)
RECURSIVE Pow256(_)
Pow256(i) == IF i = 0 THEN 1 ELSE 256 * Pow256(i - 1)

RECURSIVE readExponent(_, _, _)
readExponent(bytes, i, exponentByteCount) ==
    IF i >= exponentByteCount THEN 0
    ELSE IF isNaN(At(bytes, i + 1)) THEN NaN
    ELSE LET rest == readExponent(bytes, i + 1, exponentByteCount)
         IN  IF isNaN(rest) THEN NaN ELSE At(bytes, i + 1) * Pow256(i) + rest

\* <<exponent, indexOfLastMantissaByte>> of a buffer of two or more bytes.
decodeExponent(bytes) ==
    LET firstByte == At(bytes, 0)
        field == BitAnd(firstByte, SIX_LSB_MASK)
        magnitude == IF field > EXPONENT_OFFSET THEN field - EXPONENT_OFFSET
                     ELSE IF field # 0 THEN readExponent(bytes, 0, field)
                     ELSE field
        indexOfLastMantissaByte ==
            IF field > EXPONENT_OFFSET \/ field = 0 THEN 1 ELSE 1 + field
    IN  << IF BitAnd(firstByte, NEG_EXPONENT_SIGN_BIT) # 0 THEN Neg(magnitude) ELSE magnitude,
           indexOfLastMantissaByte >>

\* The mantissa bytes, from the last one down, into base RADIX (lowest digit first).
RECURSIVE decodeMantissa(_, _, _, _)
decodeMantissa(bytes, i, indexOfLastMantissaByte, digitsInReverse) ==
    IF i > indexOfLastMantissaByte
    THEN decodeMantissa(bytes, i - 1, indexOfLastMantissaByte,
                        convert(At(bytes, i - 1), 256, digitsInReverse, RADIX, 0))
    ELSE digitsInReverse

\* Mutant: both small-integer tables read with the offset of [0, 25].
decodeSingleByteOneOffset(firstByte) ==
    LET sign0 == IF BitAnd(firstByte, NEG_SIGN_BIT) # 0 THEN -1 ELSE 1
        integer == BitAnd(firstByte, SIX_LSB_MASK) - SMALLER_INTEGER_OFFSET
    IN  IF firstByte = NAN_BYTE \/ firstByte = INFINITY_BYTE \/ firstByte = NEG_INFINITY_BYTE
        THEN [d |-> null, e |-> NaN, s |-> IF firstByte = NAN_BYTE THEN NaN ELSE sign0]
        ELSE [d |-> <<integer>>, e |-> IF integer < 10 THEN 0 ELSE 1, s |-> sign0]

\* A buffer of one byte: a special value or a small integer.  [d, e, s].
decodeSingleByte(firstByte) ==
    LET sign0 == IF BitAnd(firstByte, NEG_SIGN_BIT) # 0 THEN -1 ELSE 1
        integer == IF BitAnd(firstByte, SMALL_INTEGER_BIT) # 0
                   THEN BitAnd(firstByte, SIX_LSB_MASK) - SMALL_INTEGER_OFFSET
                   ELSE BitAnd(firstByte, SIX_LSB_MASK) - SMALLER_INTEGER_OFFSET
    IN  IF firstByte = NAN_BYTE \/ firstByte = INFINITY_BYTE \/ firstByte = NEG_INFINITY_BYTE
        THEN [d |-> null, e |-> NaN, s |-> IF firstByte = NAN_BYTE THEN NaN ELSE sign0]
        ELSE [d |-> <<integer>>, e |-> IF integer < 10 THEN 0 ELSE 1, s |-> sign0]

\* Mutant: the range check with >= and <=.
rangeCheckedInclusive(digits0, exponent0, sign0) ==
    IF Gt(exponent0, maxE - 1) \/ Lt(exponent0, minE + 1)
    THEN [d |-> null, e |-> NaN, s |-> sign0]
    ELSE [d |-> digits0, e |-> exponent0, s |-> sign0]

\* The range check and the object fromArrayBuffer returns.
rangeChecked(digits0, exponent0, sign0) ==
    IF Gt(exponent0, maxE) \/ Lt(exponent0, minE)
    THEN [d |-> null, e |-> NaN, s |-> sign0]
    ELSE [d |-> digits0, e |-> exponent0, s |-> sign0]


(***************************************************************************)
(* The codec under the round trip of the repository's test:                *)
(*   x -> x.toArrayBuffer() -> fromArrayBuffer -> y -> y.toArrayBuffer(),  *)
(* and fromArrayBuffer on byte strings that no Decimal produced.           *)
(*   x, y             the Decimal values ([d, e, s]); Absent when none     *)
(*   buffer, yBuffer  the byte strings                                     *)
(*   sign, exponent, digitsInReverse, di, digits                           *)
(*                    the locals of fromArrayBuffer; di is the cursor i of *)
(*                    the loop that materializes the limbs                 *)
(*   cpc              where the round trip stands                          *)
(***************************************************************************)
VARIABLES x, buffer, cpc, sign, exponent, digitsInReverse, di, digits, y, yBuffer

cvars == <<x, buffer, cpc, sign, exponent, digitsInReverse, di, digits, y, yBuffer>>

(***************************************************************************)
(* The state of the evaluator (src/evaluate/index.js) and of its caller.   *)
(*   TOKENIZER       the identifiers of the tokenizer's regular expression *)
(*   TOKENS          the stored token list, or nullTokens                  *)
(*   SCOPE           the stored scope: identifier -> [fun, dec]            *)
(*   evalExpression  Decimal.eval.expression                               *)
(*   result          what the last call returned or threw: [err, v, at]    *)
(*   entry           the form of the last call                             *)
(*   source, bound, tracking, touched, offence, installed                  *)
(*                   history of the calls, kept by the caller: the text    *)
(*                   last passed, the scope of the last successful scoped  *)
(*                   call overridden by the re-binding maps passed since,  *)
(*                   whether only successful calls were made since, the    *)
(*                   names of the last map, the error its first offending  *)
(*                   entry asks for, and the scope object of the last      *)
(*                   call that installed one without throwing, overridden  *)
(*                   by the maps of the re-binding loops completed since   *)
(***************************************************************************)
VARIABLES TOKENIZER, TOKENS, SCOPE, evalExpression, result, entry,
          source, bound, tracking, touched, offence, installed

evars == <<TOKENIZER, TOKENS, SCOPE, evalExpression, result, entry,
           source, bound, tracking, touched, offence, installed>>

(***************************************************************************)
(* One call of Decimal.eval on a fresh evaluator, and a re-evaluation:     *)
(*   input    the arguments: the pieces of the expression text and the     *)
(*            entries of the scope object, with the kind of expression     *)
(*   output   TOKENIZER, TOKENS, SCOPE, Decimal.eval.expression and the    *)
(*            result after the last call                                   *)
(*   before   the same after the call before the last                      *)
(*   ppc      "given" before the call, "returned" after it, "again" after  *)
(*            the re-evaluation                                            *)
(***************************************************************************)
VARIABLES input, output, before, ppc

pvars == <<input, output, before, ppc>>

vars == <<cvars, evars, pvars>>

Absent == [absent |-> TRUE]

\* The inputs: Decimal values.
LimbVals == {0, 7, ALL_NINES}
ExpVals == {0, 1, -1, MAX_SMALL_EXPONENT, 0 - MAX_SMALL_EXPONENT,
            MAX_SMALL_EXPONENT + 1, 0 - MAX_SMALL_EXPONENT - 1,
            255, 256, -256, maxE, minE}
LimbSeqs == {q \in UNION {[1..n -> LimbVals] : n \in 1..MaxLimbs} : q[1] # 0}

SpecialValues == {[d |-> null, e |-> NaN, s |-> sg] : sg \in {NaN, 1, -1}}
Integers0 == {[d |-> <<n>>, e |-> IF n < 10 THEN 0 ELSE 1, s |-> sg] :
                 n \in 0..MaxInteger, sg \in {1, -1}}
\* A mantissa of one limb under every exponent, a longer one under one exponent
\* of each header length.
LongExpVals == {0, 0 - MAX_SMALL_EXPONENT - 1, maxE}
Finite == {[d |-> r[1], e |-> r[2], s |-> sg] :
              r \in {p \in LimbSeqs \X ExpVals : Len(p[1]) = 1 \/ p[2] \in LongExpVals},
              sg \in {1, -1}}
Decimals == SpecialValues \cup Integers0 \cup Finite

\* The inputs: byte strings of any content.
RawByteVals == {0, 128, 150, 152, 255}
RawFields == {0, 1, 2, 3, 7, 37}
RawFirstBytes == {f + b6 + b7 : f \in RawFields, b6 \in {0, NEG_EXPONENT_SIGN_BIT},
                                b7 \in {0, NEG_SIGN_BIT}}
RawTails == UNION {[1..n -> RawByteVals] : n \in 1..MaxRawTail}
RawBuffers == {<<>>} \cup {<<b>> : b \in 0..255}
                     \cup {<<f>> \o t : f \in RawFirstBytes, t \in RawTails}

CodecInit ==
    /\ \/ x \in Decimals /\ buffer = <<>>
       \/ x = Absent /\ buffer \in RawBuffers
    /\ cpc = "init"
    /\ sign = 0 /\ exponent = 0 /\ digitsInReverse = <<>> /\ di = 0 /\ digits = <<>>
    /\ y = Absent /\ yBuffer = <<>>

\* const xBuffer = x.toArrayBuffer()
ToArrayBuffer ==
    /\ cpc = "init" /\ x # Absent
    /\ buffer' = toArrayBuffer(x)
    /\ cpc' = "encoded"
    /\ UNCHANGED <<x, sign, exponent, digitsInReverse, di, digits, y, yBuffer>>
    /\ UNCHANGED <<evars, pvars>>

\* fromArrayBuffer up to the loop that materializes the limbs.
FromArrayBufferBegin ==
    /\ \/ cpc = "encoded"
       \/ cpc = "init" /\ x = Absent
    /\ IF Len(buffer) = 0
       THEN /\ y' = Absent
            /\ cpc' = "returned"
            /\ UNCHANGED <<sign, exponent, digitsInReverse, di, digits>>
       ELSE IF Len(buffer) = 1
       THEN LET v == decodeSingleByte(At(buffer, 0))
            IN  /\ sign' = v.s /\ exponent' = v.e /\ digits' = v.d
                /\ cpc' = "check"
                /\ UNCHANGED <<digitsInReverse, di, y>>
       ELSE LET ex == decodeExponent(buffer)
                rev == decodeMantissa(buffer, Len(buffer), ex[2], <<0>>)
            IN  /\ sign' = IF BitAnd(At(buffer, 0), NEG_SIGN_BIT) # 0 THEN -1 ELSE 1
                /\ exponent' = ex[1]
                /\ digitsInReverse' = rev
                /\ di' = Len(rev)
                /\ digits' = <<>>
                /\ cpc' = "materialize"
                /\ UNCHANGED y
    /\ UNCHANGED <<x, buffer, yBuffer>>
    /\ UNCHANGED <<evars, pvars>>

\* One turn of  for (let i = digitsInReverse.length; i; ) { ... }.
Materialize ==
    /\ cpc = "materialize"
    /\ di # 0
    /\ Len(digits) < MaxLimbs + MaxRunaway
    /\ LET nextDigits == At(digitsInReverse, di - 1)
           repeats == At(digitsInReverse, di - 2)
           count == IF isNaN(repeats) THEN 0 ELSE repeats
       IN  IF nextDigits = ZEROS_SIGNIFIER
           THEN /\ digits' = digits \o Repeat(ALL_ZEROS, count)
                /\ di' = di - 2
           ELSE IF nextDigits = NINES_SIGNIFIER
           THEN /\ digits' = digits \o Repeat(ALL_NINES, count)
                /\ di' = di - 2
           ELSE /\ digits' = Append(digits, nextDigits)
                /\ di' = di - 1
    /\ UNCHANGED <<x, buffer, cpc, sign, exponent, digitsInReverse, y, yBuffer>>
    /\ UNCHANGED <<evars, pvars>>

\* The range check and the return.
FromArrayBufferEnd ==
    /\ \/ cpc = "check"
       \/ cpc = "materialize" /\ di = 0
    /\ y' = rangeChecked(digits, exponent, sign)
    /\ cpc' = "returned"
    /\ UNCHANGED <<x, buffer, sign, exponent, digitsInReverse, di, digits, yBuffer>>
    /\ UNCHANGED <<evars, pvars>>

\* const yBuffer = y.toArrayBuffer()
ReEncode ==
    /\ cpc = "returned" /\ x # Absent /\ y # Absent
    /\ yBuffer' = toArrayBuffer(y)
    /\ cpc' = "done"
    /\ UNCHANGED <<x, buffer, sign, exponent, digitsInReverse, di, digits, y>>
    /\ UNCHANGED <<evars, pvars>>

CodecNext ==
    \/ ToArrayBuffer
    \/ FromArrayBufferBegin
    \/ Materialize
    \/ FromArrayBufferEnd
    \/ ReEncode


(***************************************************************************)
(* Properties of the codec.                                                *)
(***************************************************************************)
Encoded == cpc \in {"encoded", "materialize", "check", "returned", "done"} /\ x # Absent
Returned == cpc \in {"returned", "done"}
NaNValue == [d |-> null, e |-> NaN, s |-> NaN]
IntegerValue(n, sg) == [d |-> <<n>>, e |-> IF n < 10 THEN 0 ELSE 1, s |-> sg]

\* C1: decode(encode(v)) has the sign, the exponent and the limbs of v, for
\* NaN, the infinities, the zeros and every finite v.
C1_DecodeEncode ==
    (Returned /\ x # Absent) =>
        /\ y # Absent
        /\ y.s = x.s /\ y.e = x.e /\ y.d = x.d

C1_Witness ==
    /\ Returned /\ x # Absent /\ y = x
    /\ x.d # null /\ Len(x.d) = MaxLimbs /\ x.e = maxE /\ x.s = -1

\* C2: encode(decode(b)) = b, byte for byte and in length, for every b that
\* encode produced.
C2_EncodeDecodeEncode ==
    cpc = "done" =>
        /\ Len(yBuffer) = Len(buffer)
        /\ \A k \in 1..Len(buffer) : yBuffer[k] = buffer[k]

C2_Witness ==
    /\ cpc = "done" /\ yBuffer = buffer
    /\ Len(buffer) = 1 /\ x.d = <<MAX_SMALL_INTEGER>>

\* C3: a byte string whose reconstructed exponent is outside [minE, maxE]
\* decodes to NaN: sign NaN, exponent NaN, no limbs.
C3_OutOfRangeIsNaN ==
    (Returned /\ Len(buffer) > 1 /\ (Gt(exponent, maxE) \/ Lt(exponent, minE))) =>
        y = NaNValue

\* What the code returns there: no limbs, exponent NaN, and the sign of the
\* first byte, which encodes to an infinity byte.
C3_OutOfRangeKeepsSign ==
    (Returned /\ Len(buffer) > 1 /\ (Gt(exponent, maxE) \/ Lt(exponent, minE))) =>
        /\ y = [d |-> null, e |-> NaN, s |-> sign]
        /\ sign \in {1, -1}
        /\ toArrayBuffer(y) \in {<<INFINITY_BYTE>>, <<NEG_INFINITY_BYTE>>}

\* C4: decode of any byte string returns.  The loop that materializes the
\* limbs ends only at i = 0 and i only decreases, so it can still return
\* only while i >= 0.
C4_DecodeReturns ==
    cpc = "materialize" => di >= 0

\* The loop cannot recover once its cursor is below 0.
C4_NoRecovery ==
    [][(cpc = "materialize" /\ di < 0) => (cpc' = "materialize" /\ di' < 0)]_cvars

\* C5: the integers -50..50 (with -0), NaN and the infinities encode to one
\* byte, n + 38 for n in [0, 25] and n + 12 with bit 0x40 for n in [26, 50],
\* bit 0x80 for a negative sign; every other finite value to two or more.
C5_OneByte ==
    Encoded =>
        IF x.d = null THEN Len(buffer) = 1
        ELSE IF \E n \in 0..MAX_SMALL_INTEGER, sg \in {1, -1} : x = IntegerValue(n, sg)
        THEN LET n == x.d[1]
                 low == IF n <= 25 THEN n + 38 ELSE n + 12 + 64
             IN  buffer = << IF x.s = -1 THEN low + 128 ELSE low >>
        ELSE Len(buffer) >= 2

C5_Witness ==
    /\ Encoded /\ x = IntegerValue(MAX_SMALL_INTEGER, -1) /\ buffer = <<254>>

\* C6 as stated: 0, -0, 1, -1 and 50 encode to 0x26, 0xA6, 0x27, 0xA7 and
\* 0x32, and 51 to two or more bytes.
C6_Scenario ==
    Encoded =>
        /\ x = IntegerValue(0, 1) => buffer = <<38>>
        /\ x = IntegerValue(0, -1) => buffer = <<166>>
        /\ x = IntegerValue(1, 1) => buffer = <<39>>
        /\ x = IntegerValue(1, -1) => buffer = <<167>>
        /\ x = IntegerValue(50, 1) => buffer = <<50>>
        /\ x = IntegerValue(51, 1) => Len(buffer) >= 2

\* C6 amended: 50 encodes to 0x7E (50 + 12 with bit 0x40 set).
C6_ScenarioAmended ==
    Encoded =>
        /\ x = IntegerValue(0, 1) => buffer = <<38>>
        /\ x = IntegerValue(0, -1) => buffer = <<166>>
        /\ x = IntegerValue(1, 1) => buffer = <<39>>
        /\ x = IntegerValue(1, -1) => buffer = <<167>>
        /\ x = IntegerValue(50, 1) => buffer = <<126>>
        /\ x = IntegerValue(51, 1) => Len(buffer) >= 2

C6_Witness ==
    /\ Encoded /\ x = IntegerValue(50, 1) /\ buffer = <<126>>

\* The tokens the claim describes: every maximal run of equal limbs, as a
\* signifier and its length when the limb is 0 or 9999999 and the run is of
\* three or more, literally otherwise.
RunEnd(d, i) ==
    CHOOSE j \in i..Len(d) :
        /\ \A k \in i..j : d[k] = d[i]
        /\ j = Len(d) \/ d[j + 1] # d[i]

RECURSIVE RunTokens(_, _)
RunTokens(d, i) ==
    IF i > Len(d) THEN <<>>
    ELSE LET j == RunEnd(d, i)
             k == j - i + 1
         IN  (IF d[i] = 0 /\ k >= 3 THEN <<ZEROS_SIGNIFIER, k>>
              ELSE IF d[i] = 9999999 /\ k >= 3 THEN <<NINES_SIGNIFIER, k>>
              ELSE [n \in 1..k |-> d[i]]) \o RunTokens(d, j + 1)

Reversed(q) == [k \in 1..Len(q) |-> q[Len(q) + 1 - k]]

\* C7: a maximal run of k >= 3 limbs 0 or 9999999 is converted as a
\* signifier and k, every other limb literally; decode reads these tokens
\* back and expands them to the limbs.
C7_RunLength ==
    (Encoded /\ x.d # null /\ ~isSmallInteger(x.d, x.e)) =>
        /\ mantissaTokens(x.d, 0) = RunTokens(x.d, 1)
        /\ cpc = "materialize" => digitsInReverse = Reversed(RunTokens(x.d, 1))
        /\ Returned => y.d = x.d

C7_Witness ==
    /\ Returned /\ x # Absent
    /\ x.d = <<ALL_NINES, ALL_NINES, ALL_NINES, 0, 0>>
    /\ digitsInReverse = <<0, 0, 3, NINES_SIGNIFIER>>
    /\ y.d = x.d

\* The general encoding: a finite value that is not a small integer.
General ==
    /\ x # Absent /\ x.d # null
    /\ ~(Len(x.d) = 1 /\ x.d[1] <= 50 /\ x.e = (IF x.d[1] < 10 THEN 0 ELSE 1))
Magnitude(e) == IF e < 0 THEN 0 - e ELSE e
RECURSIVE LittleEndian(_, _, _)
LittleEndian(bytes, from, n) ==
    IF n = 0 THEN 0 ELSE bytes[from] + 256 * LittleEndian(bytes, from + 1, n - 1)
\* The number of exponent bytes that the first byte announces.
Announced(e) == IF Magnitude(e) <= 30 THEN 0 ELSE buffer[1] % 64

\* C16: in the general encoding the low six bits of the first byte are 0
\* for e = 0, |e| + 7 for 1 <= |e| <= 30, and otherwise a count n in 1..7 of
\* exponent bytes that follow and hold |e| little-endian, the last of them
\* nonzero; bit 0x40 is set exactly when e < 0, bit 0x80 exactly when the
\* sign is negative; decoding reads the same exponent and starts the
\* mantissa right after the exponent bytes.
C16_HeaderLayout ==
    (Encoded /\ General) =>
        /\ Len(buffer) >= 2
        /\ x.e = 0 => (buffer[1] % 64) = 0
        /\ Magnitude(x.e) \in 1..30 => (buffer[1] % 64) = Magnitude(x.e) + 7
        /\ Magnitude(x.e) > 30 =>
              /\ (buffer[1] % 64) \in 1..7
              /\ Len(buffer) > 1 + (buffer[1] % 64)
              /\ LittleEndian(buffer, 2, buffer[1] % 64) = Magnitude(x.e)
              /\ buffer[1 + (buffer[1] % 64)] # 0
        /\ (((buffer[1] \div 64) % 2) = 1) <=> (x.e < 0)
        /\ ((buffer[1] \div 128) = 1) <=> (x.s < 0)
        /\ cpc \in {"materialize", "returned", "done"} =>
              /\ exponent = x.e
              /\ sign = x.s
              /\ digitsInReverse =
                    decodeMantissa(buffer, Len(buffer), 1 + Announced(x.e), <<0>>)

\* e = -256 with a negative sign: first byte 0xC2, exponent bytes 0x00 0x01.
C16_Witness ==
    /\ Encoded /\ General /\ cpc = "materialize"
    /\ x.e = -256 /\ x.s = -1
    /\ SubSeq(buffer, 1, 3) = <<194, 0, 1>>
    /\ exponent = -256


(***************************************************************************)
(*                            The evaluator                                *)
(*                                                                         *)
(* A Decimal of the host is a fraction [n, d] in lowest terms, d > 0;      *)
(* d = 0 stands for Infinity (n = 1), -Infinity (n = -1) and NaN (n = 0).  *)
(* The host's arithmetic is exact on the values the model computes.        *)
(***************************************************************************)
Abs(a) == IF a < 0 THEN 0 - a ELSE a
Sgn(a) == IF a < 0 THEN -1 ELSE IF a > 0 THEN 1 ELSE 0

RECURSIVE Gcd(_, _)
Gcd(a, b) == IF b = 0 THEN a ELSE Gcd(b, a % b)

\* n / d as a Decimal.
Frac(n, d) ==
    IF d = 0 THEN [n |-> Sgn(n), d |-> 0]
    ELSE LET g == Gcd(Abs(n), Abs(d))
         IN  [n |-> Sgn(d) * (n \div g), d |-> Abs(d) \div g]

DecNaN == [n |-> 0, d |-> 0]
DecIsNaN(a) == a.d = 0 /\ a.n = 0
DecIsFinite(a) == a.d # 0
isZero(a) == a.d # 0 /\ a.n = 0

plus(a, b) ==
    IF DecIsFinite(a) /\ DecIsFinite(b) THEN Frac(a.n * b.d + b.n * a.d, a.d * b.d)
    ELSE IF DecIsNaN(a) \/ DecIsNaN(b) THEN DecNaN
    ELSE IF ~DecIsFinite(a) /\ ~DecIsFinite(b) THEN (IF a.n = b.n THEN a ELSE DecNaN)
    ELSE IF DecIsFinite(a) THEN b ELSE a

negated(a) == [n |-> 0 - a.n, d |-> a.d]
minus(a, b) == plus(a, negated(b))

times(a, b) ==
    IF DecIsFinite(a) /\ DecIsFinite(b) THEN Frac(a.n * b.n, a.d * b.d)
    ELSE IF DecIsNaN(a) \/ DecIsNaN(b) \/ isZero(a) \/ isZero(b) THEN DecNaN
    ELSE [n |-> Sgn(a.n) * Sgn(b.n), d |-> 0]

div(a, b) ==
    IF DecIsNaN(a) \/ DecIsNaN(b) THEN DecNaN
    ELSE IF DecIsFinite(a) /\ DecIsFinite(b) THEN Frac(a.n * b.d, a.d * b.n)
    ELSE IF ~DecIsFinite(a) /\ ~DecIsFinite(b) THEN DecNaN
    ELSE IF DecIsFinite(a) THEN Frac(0, 1)
    ELSE [n |-> a.n * (IF b.n < 0 THEN -1 ELSE 1), d |-> 0]

\* The integer part of a finite Decimal, towards zero.
TruncOf(a) == Sgn(a.n) * (Abs(a.n) \div a.d)

\* a - b * trunc(a / b): the remainder has the sign of the dividend.
mod(a, b) ==
    IF ~DecIsFinite(a) \/ DecIsNaN(b) \/ isZero(b) THEN DecNaN
    ELSE IF ~DecIsFinite(b) THEN a
    ELSE minus(a, times(b, Frac(TruncOf(div(a, b)), 1)))

RECURSIVE IntPow(_, _)
IntPow(a, k) == IF k = 0 THEN Frac(1, 1) ELSE times(a, IntPow(a, k - 1))

\* a ^ b for an integer b; the host's result for any other b is not a fraction.
pow(a, b) ==
    IF DecIsNaN(a) \/ DecIsNaN(b) THEN DecNaN
    ELSE IF isZero(b) THEN Frac(1, 1)
    ELSE IF ~DecIsFinite(b) \/ ~DecIsFinite(a) \/ b.d # 1 THEN DecNaN
    ELSE IF b.n > 0 THEN IntPow(a, b.n)
    ELSE div(Frac(1, 1), IntPow(a, 0 - b.n))

\* The root of a square; the host's result for any other value is not a fraction.
IntRoot(k) == IF \E r \in 0..k : r * r = k THEN CHOOSE r \in 0..k : r * r = k ELSE -1
sqrt(a) ==
    IF ~DecIsFinite(a) \/ a.n < 0 THEN (IF a.d = 0 /\ a.n = 1 THEN a ELSE DecNaN)
    ELSE IF IntRoot(a.n) < 0 \/ IntRoot(a.d) < 0 THEN DecNaN
    ELSE Frac(IntRoot(a.n), IntRoot(a.d))

\* a < b; false when either is NaN.
lt(a, b) ==
    /\ ~DecIsNaN(a) /\ ~DecIsNaN(b)
    /\ IF DecIsFinite(a) /\ DecIsFinite(b) THEN a.n * b.d < b.n * a.d
       ELSE IF ~DecIsFinite(a) /\ ~DecIsFinite(b) THEN a.n < b.n
       ELSE IF DecIsFinite(a) THEN b.n > 0 ELSE a.n < 0
eq(a, b) == ~DecIsNaN(a) /\ ~DecIsNaN(b) /\ a = b
gt(a, b) == lt(b, a)
lte(a, b) == lt(a, b) \/ eq(a, b)
gte(a, b) == lt(b, a) \/ eq(a, b)

\* new Decimal(Number(bool))
OfBool(b) == IF b THEN Frac(1, 1) ELSE Frac(0, 1)


(***************************************************************************)
(* Text.  A string is a sequence of characters, each a one-character       *)
(* string; "sqrt" stands for the character U+221A and "pi" for a letter of *)
(* the Greek and Coptic range.                                             *)
(***************************************************************************)
DigitChars == {"0", "1", "2", "3", "4", "5", "6", "7", "8", "9"}
DigitVal(c) ==
    CASE c = "0" -> 0 [] c = "1" -> 1 [] c = "2" -> 2 [] c = "3" -> 3 [] c = "4" -> 4
      [] c = "5" -> 5 [] c = "6" -> 6 [] c = "7" -> 7 [] c = "8" -> 8 [] c = "9" -> 9
Letters == {"a", "b", "c", "d", "e", "f", "g", "h", "i", "j", "k", "l", "m",
            "n", "o", "p", "q", "r", "s", "t", "u", "v", "w", "x", "y", "z",
            "A", "B", "C", "D", "E", "F", "G", "H", "I", "J", "K", "L", "M",
            "N", "O", "P", "Q", "R", "S", "T", "U", "V", "W", "X", "Y", "Z"}
Greek == {"pi"}
WordChars == Letters \cup DigitChars \cup {"_"}
Whitespace == {" "}

\* s[p], p counted from 1; "" past the end.
CharAt(s, p) == IF p >= 1 /\ p <= Len(s) THEN s[p] ELSE ""

\* VALID_IDENTIFIER.test(id)
VALID_IDENTIFIER(id) ==
    /\ Len(id) >= 1
    /\ id[1] \in Letters \cup {"_", "$"} \cup Greek
    /\ \A k \in 2..Len(id) : id[k] \in WordChars \cup {"$"} \cup Greek

\* expression.trim() !== ''
IsBlank(s) == \A k \in 1..Len(s) : s[k] \in Whitespace

\* expression.replace(/\*\*/g, '^')
RECURSIVE ReplacePower(_, _)
ReplacePower(s, p) ==
    IF p > Len(s) THEN <<>>
    ELSE IF CharAt(s, p) = "*" /\ CharAt(s, p + 1) = "*"
         THEN <<"^">> \o ReplacePower(s, p + 2)
         ELSE <<s[p]>> \o ReplacePower(s, p + 1)

(***************************************************************************)
(* The TOKENIZER regular expression, one match at position p.              *)
(***************************************************************************)
\* The position after the digits that start at p.
RECURSIVE DigitsEnd(_, _)
DigitsEnd(s, p) == IF CharAt(s, p) \in DigitChars THEN DigitsEnd(s, p + 1) ELSE p

\* \d+(?:\.\d+)?(?:[eE][+-]?\d+)? at p: the position after the match, p if none.
NumberEnd(s, p) ==
    LET a == DigitsEnd(s, p)
        b == IF CharAt(s, a) = "." /\ DigitsEnd(s, a + 1) > a + 1
             THEN DigitsEnd(s, a + 1) ELSE a
        c == IF CharAt(s, b + 1) \in {"+", "-"} THEN b + 2 ELSE b + 1
    IN  IF a = p THEN p
        ELSE IF CharAt(s, b) \in {"e", "E"} /\ DigitsEnd(s, c) > c
             THEN DigitsEnd(s, c) ELSE b

RECURSIVE DigitsValue(_, _, _, _)
DigitsValue(s, p, q, acc) ==
    IF p >= q THEN acc
    ELSE IF s[p] \in DigitChars THEN DigitsValue(s, p + 1, q, 10 * acc + DigitVal(s[p]))
    ELSE DigitsValue(s, p + 1, q, acc)

RECURSIVE Pow10(_)
Pow10(k) == IF k <= 0 THEN 1 ELSE 10 * Pow10(k - 1)

\* new Decimal(m) for the number literal s[p .. q-1].
NumberValue(s, p, q) ==
    LET a == DigitsEnd(s, p)
        b == IF CharAt(s, a) = "." /\ DigitsEnd(s, a + 1) > a + 1
             THEN DigitsEnd(s, a + 1) ELSE a
        fractionDigits == IF b > a THEN b - a - 1 ELSE 0
        mantissa == DigitsValue(s, p, b, 0)
        c == IF CharAt(s, b + 1) \in {"+", "-"} THEN b + 2 ELSE b + 1
        e10 == IF b < q
               THEN (IF CharAt(s, b + 1) = "-" THEN -1 ELSE 1) * DigitsValue(s, c, q, 0)
               ELSE 0
        scale == e10 - fractionDigits
    IN  IF scale >= 0 THEN Frac(mantissa * Pow10(scale), 1)
        ELSE Frac(mantissa, Pow10(0 - scale))

IsPrefixAt(id, s, p) ==
    /\ p + Len(id) - 1 <= Len(s)
    /\ \A k \in 1..Len(id) : s[p + k - 1] = id[k]

\* The identifier alternation, sorted longest first: the identifier matched at
\* p, <<>> if none.
IdentifierAt(ids, s, p) ==
    LET found == {id \in ids : IsPrefixAt(id, s, p)}
    IN  IF found = {} THEN <<>>
        ELSE CHOOSE id \in found : \A other \in found : Len(other) <= Len(id)

\* ([!<>=]=|[-+*\/(^%><!\u221A,]|&&|\|\|) at p: the operator, <<>> if none.
OperatorAt(s, p) ==
    LET c == CharAt(s, p)
        c2 == CharAt(s, p + 1)
    IN  IF c \in {"!", "<", ">", "="} /\ c2 = "=" THEN <<c, c2>>
        ELSE IF c \in {"-", "+", "*", "/", "(", "^", "%", ">", "<", "!", "sqrt", ","} THEN <<c>>
        ELSE IF c = "&" /\ c2 = "&" THEN <<c, c2>>
        ELSE IF c = "|" /\ c2 = "|" THEN <<c, c2>>
        ELSE <<>>

\* (?=([\w($\u221A\u0370-\u03FF]|!(?!=))?) at p: whether group 4 is set.
LookaheadWithoutParenthesis(s, p) ==
    LET c == CharAt(s, p)
    IN  \/ c \in WordChars \cup {"$", "sqrt"} \cup Greek
        \/ c = "!" /\ CharAt(s, p + 1) # "="
LookaheadAt(s, p) ==
    LET c == CharAt(s, p)
    IN  \/ c \in WordChars \cup {"(", "$", "sqrt"} \cup Greek
        \/ c = "!" /\ CharAt(s, p + 1) # "="


(***************************************************************************)
(* Tokens: [type, val, num].  type is "num" (num is its Decimal), "op"     *)
(* (val is the symbol, the shared OPERATORS entry), "var" or "func" (val   *)
(* is the identifier) or "end".  A scope binds an identifier to            *)
(* [fun, dec]: a function of the host (fun is its name) or a Decimal       *)
(* (fun is "").                                                            *)
(***************************************************************************)
NumToken(v) == [type |-> "num", val |-> <<>>, num |-> v]
OpToken(sym) == [type |-> "op", val |-> sym, num |-> DecNaN]
VarToken(id) == [type |-> "var", val |-> id, num |-> DecNaN]
FuncToken(id) == [type |-> "func", val |-> id, num |-> DecNaN]
EndToken == [type |-> "end", val |-> <<"e", "n", "d">>, num |-> DecNaN]

IsFunction(scope, id) == id \in DOMAIN scope /\ scope[id].fun # ""

(***************************************************************************)
(* The loop  while ((match = TOKENIZER.exec(expression)))  from position   *)
(* p: [ok, tokens, parsed, symbol].  ids are the identifiers of TOKENIZER. *)
(***************************************************************************)
RECURSIVE TokenizeFrom(_, _, _, _, _, _)
TokenizeFrom(s, p, ids, scope, tokens, parsed) ==
    IF p > Len(s)
    THEN [ok |-> TRUE, tokens |-> Append(tokens, EndToken), parsed |-> parsed, symbol |-> ""]
    ELSE IF s[p] \in Whitespace THEN TokenizeFrom(s, p + 1, ids, scope, tokens, parsed)
    ELSE
    LET n == NumberEnd(s, p)
        id == IdentifierAt(ids, s, p)
        op == OperatorAt(s, p)
        star == <<OpToken(<<"*">>)>>
    IN  IF n > p
        THEN LET m == SubSeq(s, p, n - 1)
                 token == NumToken(NumberValue(s, p, n))
             IN  IF LookaheadAt(s, n)
                 THEN TokenizeFrom(s, n, ids, scope, tokens \o <<token>> \o star, parsed \o m \o <<"*">>)
                 ELSE TokenizeFrom(s, n, ids, scope, tokens \o <<token>>, parsed \o m)
        ELSE IF id # <<>>
        THEN LET q == p + Len(id)
             IN  IF IsFunction(scope, id)
                 THEN TokenizeFrom(s, q, ids, scope, tokens \o <<FuncToken(id)>>, parsed \o id)
                 ELSE IF LookaheadAt(s, q)
                 THEN TokenizeFrom(s, q, ids, scope, tokens \o <<VarToken(id)>> \o star,
                                   parsed \o id \o <<"*">>)
                 ELSE TokenizeFrom(s, q, ids, scope, tokens \o <<VarToken(id)>>, parsed \o id)
        ELSE IF s[p] = ")"
        THEN IF LookaheadAt(s, p + 1)
             THEN TokenizeFrom(s, p + 1, ids, scope, tokens \o <<OpToken(<<")">>)>> \o star,
                               parsed \o <<")", "*">>)
             ELSE TokenizeFrom(s, p + 1, ids, scope, tokens \o <<OpToken(<<")">>)>>,
                               parsed \o <<")">>)
        ELSE IF op # <<>>
        THEN TokenizeFrom(s, p + Len(op), ids, scope, tokens \o <<OpToken(op)>>, parsed \o op)
        ELSE [ok |-> FALSE, tokens |-> <<>>, parsed |-> parsed, symbol |-> s[p]]

Tokenize(expression, ids, scope) ==
    TokenizeFrom(ReplacePower(expression, 1), 1, ids, scope, <<>>, <<>>)

(***************************************************************************)
(* Values that are not Decimals: the undefined read of an unbound name and *)
(* a function bound to a name.  A method call on one throws TypeError, the *)
(* host's constructor throws DecimalError.                                 *)
(***************************************************************************)
undefinedValue == [n |-> 0, d |-> -1]
functionValue == [n |-> 0, d |-> -2]
IsDecimal(v) == v.d >= 0

\* TOKENS[index], index counted from 0.
UndefinedToken == [type |-> "undefined", val |-> <<>>, num |-> DecNaN]
TokAt(T, i) == IF i >= 0 /\ i < Len(T) THEN T[i + 1] ELSE UndefinedToken

\* The object that a returned value is: one created by the step, the Decimal
\* of a number token (TOKENS[k].val) or the Decimal bound to a name (SCOPE[id]).
NewObject == [at |-> "new", id |-> <<>>, k |-> 0]
TokenRef(k) == [at |-> "token", id |-> <<>>, k |-> k]
ScopeRef(id) == [at |-> "scope", id |-> id, k |-> 0]

\* The result of a step of the parser: the error thrown (or ""), the value
\* returned, the index of the current token, the object that the value is
\* and the stored objects whose sign field the step has flipped.
Ok(v, i) == [err |-> "", v |-> v, i |-> i, own |-> NewObject, wr |-> {}]
Throw(e, i) == [err |-> e, v |-> DecNaN, i |-> i, own |-> NewObject, wr |-> {}]
Held(v, i, own) == [err |-> "", v |-> v, i |-> i, own |-> own, wr |-> {}]
\* Flipping a sign twice restores it.
Toggle(a, b) == (a \ b) \cup (b \ a)
\* A result reached after the writes wr.
After(wr, r) == [r EXCEPT !.wr = Toggle(wr, @)]
\* r = new Decimal(...); r.s = -r.s  of the prefix of '-' (lines 98-99)
SameDecimal(r) == r
NewDecimal(r) == [r EXCEPT !.own = NewObject]
Negate(r) ==
    [r EXCEPT !.v = negated(@),
              !.wr = IF r.own = NewObject THEN @ ELSE Toggle(@, {r.own})]

\* OPERATORS[op].lbp; a token that is not an operator has none.
lbpAdditiveAsMultiplicative(t) ==
    IF t.type # "op" THEN undefined
    ELSE CASE t.val = <<"^">> -> 80
           [] t.val \in {<<"*">>, <<"/">>, <<"%">>, <<"+">>, <<"-">>} -> 60
           [] t.val \in {<<">">>, <<">", "=">>, <<"<">>, <<"<", "=">>} -> 40
           [] t.val \in {<<"=", "=">>, <<"!", "=">>} -> 30
           [] t.val = <<"&", "&">> -> 20
           [] t.val = <<"|", "|">> -> 10
           [] OTHER -> 0
lbp(t) ==
    IF t.type # "op" THEN undefined
    ELSE CASE t.val = <<"^">> -> 80
           [] t.val \in {<<"*">>, <<"/">>, <<"%">>} -> 60
           [] t.val \in {<<"+">>, <<"-">>} -> 50
           [] t.val \in {<<">">>, <<">", "=">>, <<"<">>, <<"<", "=">>} -> 40
           [] t.val \in {<<"=", "=">>, <<"!", "=">>} -> 30
           [] t.val = <<"&", "&">> -> 20
           [] t.val = <<"|", "|">> -> 10
           [] OTHER -> 0

\* t.prefix is set.
HasPrefixOrEnd(t) ==
    \/ t.type \in {"num", "var", "func", "end"}
    \/ t.type = "op" /\ t.val \in {<<"+">>, <<"-">>, <<"sqrt">>, <<"!">>, <<"(">>}
HasPrefix(t) ==
    \/ t.type \in {"num", "var", "func"}
    \/ t.type = "op" /\ t.val \in {<<"+">>, <<"-">>, <<"sqrt">>, <<"!">>, <<"(">>}

\* left[fn](right) for the operators added with a method name, and the
\* methods the other operators call.
Method(sym, left, right) ==
    CASE sym = <<"^">> -> pow(left, right)
      [] sym = <<"*">> -> times(left, right)
      [] sym = <<"/">> -> div(left, right)
      [] sym = <<"%">> -> mod(left, right)
      [] sym = <<"+">> -> plus(left, right)
      [] sym = <<"-">> -> minus(left, right)
      [] sym = <<">">> -> OfBool(gt(left, right))
      [] sym = <<">", "=">> -> OfBool(gte(left, right))
      [] sym = <<"<">> -> OfBool(lt(left, right))
      [] sym = <<"<", "=">> -> OfBool(lte(left, right))
      [] sym = <<"=", "=">> -> OfBool(eq(left, right))
      [] sym = <<"!", "=">> -> OfBool(~eq(left, right))

\* The functions of the host that the scopes bind: x => x.abs() and
\* (...args) => Decimal.max(...args).
abs(a) == [n |-> Abs(a.n), d |-> a.d]
RECURSIVE MaxOf(_, _, _)
MaxOf(args, k, best) ==
    IF k > Len(args) THEN best
    ELSE IF DecIsNaN(args[k]) THEN args[k]
    ELSE MaxOf(args, k + 1, IF lt(best, args[k]) THEN args[k] ELSE best)
max(args) == IF DecIsNaN(args[1]) THEN args[1] ELSE MaxOf(args, 2, args[1])

Apply(fun, args) ==
    IF fun = "abs"
    THEN IF Len(args) = 0 \/ ~IsDecimal(args[1]) THEN Throw("TypeError", 0)
         ELSE Ok(abs(args[1]), 0)
    ELSE IF Len(args) = 0 \/ \E k \in 1..Len(args) : ~IsDecimal(args[k])
         THEN Throw("DecimalError", 0)
         ELSE Ok(max(args), 0)

RECURSIVE evaluate(_, _, _, _)
RECURSIVE InfixLoop(_, _, _, _, _)
RECURSIVE Prefix(_, _, _, _)
RECURSIVE Infix(_, _, _, _, _)
RECURSIVE funcPrefix(_, _, _, _)
RECURSIVE ArgsLoop(_, _, _, _)

\* evaluate(rbp) with the current token at index i of TOKENS = T, SCOPE = S.
evaluate(T, S, rbp, i) ==
    LET t == TokAt(T, i)
    IN  IF t.type = "undefined" THEN Throw("TypeError", i)
        ELSE IF ~HasPrefix(t)
        THEN Throw(IF t.val = EndToken.val THEN "unexpected end" ELSE "unexpected symbol", i)
        ELSE LET r == Prefix(T, S, t, i + 1)
             IN  IF r.err # "" THEN r ELSE InfixLoop(T, S, rbp, r, r.i)

\* while (rbp < token.lbp) { t = token; token = TOKENS[++index]; left = t.infix(left) }
\* left is the result that holds the object 'left'.
InfixLoop(T, S, rbp, left, i) ==
    LET t == TokAt(T, i)
    IN  IF t.type = "undefined" THEN After(left.wr, Throw("TypeError", i))
        ELSE IF Lt(rbp, lbp(t))
        THEN LET r == Infix(T, S, t, left, i + 1)
             IN  IF r.err # "" THEN r ELSE InfixLoop(T, S, rbp, r, r.i)
        ELSE [left EXCEPT !.i = i]

\* t.prefix(): numPrefix, varPrefix, funcPrefix or the operator's prefix.
\* numPrefix and varPrefix return the stored object itself.
Prefix(T, S, t, i) ==
    IF t.type = "num" THEN Held(t.num, i, TokenRef(i - 1))
    ELSE IF t.type = "var"
    THEN IF t.val \notin DOMAIN S THEN Ok(undefinedValue, i)
         ELSE IF S[t.val].fun # "" THEN Ok(functionValue, i)
         ELSE Held(S[t.val].dec, i, ScopeRef(t.val))
    ELSE IF t.type = "func" THEN funcPrefix(T, S, t, i)
    ELSE IF t.val = <<"+">> THEN evaluate(T, S, 70, i)
    ELSE IF t.val = <<"-">>
    THEN LET r == evaluate(T, S, 70, i)
         IN  IF r.err # "" THEN r
             ELSE IF ~IsDecimal(r.v) THEN After(r.wr, Throw("DecimalError", r.i))
             ELSE Negate(NewDecimal(r))
    ELSE IF t.val = <<"sqrt">>
    THEN LET r == evaluate(T, S, 79, i)
         IN  IF r.err # "" THEN r
             ELSE IF ~IsDecimal(r.v) THEN After(r.wr, Throw("TypeError", r.i))
             ELSE After(r.wr, Ok(sqrt(r.v), r.i))
    ELSE IF t.val = <<"!">>
    THEN LET r == evaluate(T, S, 70, i)
         IN  IF r.err # "" THEN r
             ELSE IF ~IsDecimal(r.v) THEN After(r.wr, Throw("TypeError", r.i))
             ELSE After(r.wr, Ok(OfBool(isZero(r.v)), r.i))
    ELSE LET r == evaluate(T, S, 0, i)
         IN  IF r.err # "" THEN r
             ELSE IF TokAt(T, r.i).type = "undefined" THEN After(r.wr, Throw("TypeError", r.i))
             ELSE IF TokAt(T, r.i).val # <<")">> THEN After(r.wr, Throw("expected )", r.i))
             ELSE [r EXCEPT !.i = r.i + 1]

\* t.infix(left)
InfixShortCircuit(T, S, t, left, i) ==
    IF t.val \in {<<"&", "&">>, <<"|", "|">>}
    THEN IF ~IsDecimal(left.v) THEN After(left.wr, Throw("TypeError", i))
         ELSE IF isZero(left.v) <=> t.val = <<"&", "&">> THEN [left EXCEPT !.i = i]
         ELSE After(left.wr, evaluate(T, S, lbp(t), i))
    ELSE IF ~IsDecimal(left.v) THEN After(left.wr, Throw("TypeError", i))
    ELSE LET r == evaluate(T, S, IF t.val = <<"^">> THEN 79 ELSE lbp(t), i)
         IN  IF r.err # "" THEN After(left.wr, r)
             ELSE IF ~IsDecimal(r.v) THEN After(Toggle(left.wr, r.wr), Throw("DecimalError", r.i))
             ELSE After(Toggle(left.wr, r.wr), Ok(Method(t.val, left.v, r.v), r.i))
Infix(T, S, t, left, i) ==
    IF t.val \in {<<"&", "&">>, <<"|", "|">>}
    THEN LET r == evaluate(T, S, lbp(t), i)
         IN  IF r.err # "" THEN After(left.wr, r)
             ELSE IF ~IsDecimal(left.v)
             THEN After(Toggle(left.wr, r.wr), Throw("TypeError", r.i))
             ELSE IF isZero(left.v) <=> t.val = <<"&", "&">>
             THEN After(r.wr, [left EXCEPT !.i = r.i])
             ELSE After(left.wr, r)
    ELSE IF ~IsDecimal(left.v) THEN After(left.wr, Throw("TypeError", i))
    ELSE LET r == evaluate(T, S, IF t.val = <<"^">> THEN 79 ELSE lbp(t), i)
         IN  IF r.err # "" THEN After(left.wr, r)
             ELSE IF ~IsDecimal(r.v) THEN After(Toggle(left.wr, r.wr), Throw("DecimalError", r.i))
             ELSE After(Toggle(left.wr, r.wr), Ok(Method(t.val, left.v, r.v), r.i))

\* while (true) { args.push(evaluate(0)); ... } of funcPrefix: [err, args, i, wr],
\* i the index of the closing parenthesis.
ArgsLoop(T, S, i, args) ==
    LET r == evaluate(T, S, 0, i)
        t == TokAt(T, r.i)
    IN  IF r.err # "" THEN [err |-> r.err, args |-> args, i |-> r.i, wr |-> r.wr]
        ELSE IF t.type = "undefined"
        THEN [err |-> "TypeError", args |-> args, i |-> r.i, wr |-> r.wr]
        ELSE IF t.val = <<",">>
        THEN LET a == ArgsLoop(T, S, r.i + 1, Append(args, r.v))
             IN  [a EXCEPT !.wr = Toggle(r.wr, @)]
        ELSE IF t.val # <<")">>
        THEN [err |-> "expected )", args |-> args, i |-> r.i, wr |-> r.wr]
        ELSE [err |-> "", args |-> Append(args, r.v), i |-> r.i, wr |-> r.wr]

funcPrefix(T, S, this, i) ==
    LET t == TokAt(T, i)
        a == IF TokAt(T, i + 1).val # <<")">> THEN ArgsLoop(T, S, i + 1, <<>>)
             ELSE [err |-> "", args |-> <<>>, i |-> i + 1, wr |-> {}]
        c == Apply(S[this.val].fun, a.args)
    IN  IF t.type = "undefined" THEN Throw("TypeError", i)
        ELSE IF t.val # <<"(">> THEN Throw("expected (", i)
        ELSE IF TokAt(T, i + 1).type = "undefined" THEN Throw("TypeError", i + 1)
        ELSE IF a.err # "" THEN After(a.wr, Throw(a.err, a.i))
        ELSE IF ~IsFunction(S, this.val) THEN After(a.wr, Throw("TypeError", a.i + 1))
        ELSE IF c.err # "" THEN After(a.wr, Throw(c.err, a.i + 1))
        ELSE IF ~IsDecimal(c.v) THEN After(a.wr, Throw("DecimalError", a.i + 1))
        ELSE After(a.wr, Ok(c.v, a.i + 1))

(***************************************************************************)
(* The function that evaluator(Decimal) returns.                           *)
(***************************************************************************)
\* TOKENS = null
nullTokens == <<[type |-> "null", val |-> <<>>, num |-> DecNaN]>>

\* SCOPE = {}
EmptyScope == [id \in {} |-> [fun |-> "", dec |-> DecNaN]]

\* SCOPE[id] = v
Bind(S, id, v) == [n \in DOMAIN S \cup {id} |-> IF n = id THEN v ELSE S[n]]

\* typeof val === 'function' ? val : new Decimal(val)
FunctionOf(val) == [fun |-> val.fun, dec |-> DecNaN]
DecimalOf(val) == [fun |-> "", dec |-> val.dec]

\* The loop over Object.entries(scope) that fills the new SCOPE, from entry k:
\* the error thrown (or "") and the SCOPE it leaves.
RECURSIVE Install(_, _, _)
Install(entries, k, S) ==
    IF k > Len(entries) THEN [err |-> "", S |-> S]
    ELSE LET id == entries[k].id
             val == entries[k].val
         IN  IF ~VALID_IDENTIFIER(id) THEN [err |-> "invalid identifier", S |-> S]
             ELSE IF val.fun # "" THEN Install(entries, k + 1, Bind(S, id, FunctionOf(val)))
             ELSE IF ~IsDecimal(val.dec) THEN [err |-> "DecimalError", S |-> S]
             ELSE Install(entries, k + 1, Bind(S, id, DecimalOf(val)))

\* The identifiers of the regular expression built from SCOPE.
DEFAULT_TOKENIZER == {<<"0">>}
TokenizerOf(S) == IF DOMAIN S # {} THEN DOMAIN S ELSE DEFAULT_TOKENIZER

\* SCOPE[id] = val, SCOPE[id] = new Decimal(val) of the re-binding loop.
RebindStale(S, id, val) == S
Rebound(S, id, val) ==
    Bind(S, id, IF val.fun # "" THEN FunctionOf(val) ELSE DecimalOf(val))

\* The error that one entry of a re-binding map throws, "" when it is accepted.
SlotAcceptsAnything(S, id, val) ==
    IF val.fun = "" /\ ~IsDecimal(val.dec) THEN "DecimalError" ELSE ""
SlotError(S, id, val) ==
    IF id \notin DOMAIN S THEN "identifier not in scope"
    ELSE IF S[id].fun # ""
    THEN (IF val.fun = "" THEN "must be a function" ELSE "")
    ELSE IF val.fun # "" THEN "must not be a function"
    ELSE IF ~IsDecimal(val.dec) THEN "DecimalError"
    ELSE ""

\* The loop over Object.entries(scope) that updates the existing SCOPE.
RECURSIVE Rebind(_, _, _)
Rebind(entries, k, S) ==
    IF k > Len(entries) THEN [err |-> "", S |-> S]
    ELSE LET id == entries[k].id
             val == entries[k].val
         IN  IF SlotError(S, id, val) # "" THEN [err |-> SlotError(S, id, val), S |-> S]
             ELSE Rebind(entries, k + 1, Rebound(S, id, val))

\* index = 0 ... return result
\* const result = new Decimal(evaluate(0)); if (token.val !== 'end') throw ...;
\* r is what evaluate(0) returned or threw.
Outcome(T, r) ==
    IF r.err # "" THEN [err |-> r.err, v |-> DecNaN, at |-> "evaluate"]
    ELSE IF ~IsDecimal(r.v) THEN [err |-> "DecimalError", v |-> DecNaN, at |-> "evaluate"]
    ELSE IF TokAt(T, r.i).val # EndToken.val
    THEN [err |-> "unexpected symbol", v |-> DecNaN, at |-> "evaluate"]
    ELSE [err |-> "", v |-> r.v, at |-> "return"]
Run(T, S) == Outcome(T, evaluate(T, S, 0, 0))

\* TOKENS and SCOPE once evaluate(0) has run: the Decimals whose sign field
\* was flipped are the negated ones.
TokensAfter(T, wr) ==
    [k \in 1..Len(T) |-> IF TokenRef(k - 1) \in wr THEN [T[k] EXCEPT !.num = negated(@)] ELSE T[k]]
ScopeAfter(S, wr) ==
    [id \in DOMAIN S |-> IF ScopeRef(id) \in wr THEN [S[id] EXCEPT !.dec = negated(@)] ELSE S[id]]

Thrown(e, at) == [err |-> e, v |-> DecNaN, at |-> at]

\* The arguments of a call.
Undefined == [kind |-> "undefined", text |-> <<>>, entries |-> <<>>]
Other == [kind |-> "other", text |-> <<>>, entries |-> <<>>]
String(text) == [kind |-> "string", text |-> text, entries |-> <<>>]
Object(entries) == [kind |-> "object", text |-> <<>>, entries |-> entries]

\* The state a call leaves and what it returns or throws, from the state st
\* = [TOKENIZER, TOKENS, SCOPE, expression].
\* The state after lines 295-300, r being what evaluate(0) returned or threw.
Evaluated(st, T, S, r) ==
    [st EXCEPT !.TOKENS = TokensAfter(T, r.wr), !.SCOPE = ScopeAfter(S, r.wr),
               !.result = Outcome(T, r)]
\* Lines 221-300 with the tokenizer and the scope of the call, tk being what
\* the tokenizing loop produced.
EvalTokens(st, tokenizer, S, tk) ==
    IF ~tk.ok
    THEN [st EXCEPT !.SCOPE = S, !.TOKENIZER = tokenizer, !.TOKENS = nullTokens,
                    !.result = Thrown("unknown symbol", "tokenize")]
    ELSE CHOOSE nx \in
            { Evaluated([st EXCEPT !.TOKENIZER = tokenizer, !.expression = tk.parsed],
                        tk.tokens, S, r) : r \in {evaluate(tk.tokens, S, 0, 0)} } : TRUE
\* Lines 203-300, inst being what the installation loop left.
EvalText(st, text, installs, inst) ==
    IF inst.err # ""
    THEN [st EXCEPT !.SCOPE = inst.S, !.result = Thrown(inst.err, "scope")]
    ELSE CHOOSE nx \in
            { EvalTokens(st, IF installs THEN TokenizerOf(inst.S) ELSE st.TOKENIZER, inst.S, tk) :
                tk \in {Tokenize(text, IF installs THEN TokenizerOf(inst.S) ELSE st.TOKENIZER,
                                  inst.S)} } : TRUE
\* Lines 274-300, rb being what the re-binding loop left.
EvalRebound(st, rb) ==
    IF rb.err # ""
    THEN [st EXCEPT !.SCOPE = rb.S, !.result = Thrown(rb.err, "rebind")]
    ELSE CHOOSE nx \in
            { Evaluated(st, st.TOKENS, rb.S, r) : r \in {evaluate(st.TOKENS, rb.S, 0, 0)} } : TRUE

\* Each intermediate value (the scope installed, the tokens, the result of
\* evaluate) is computed once and bound.
Eval(st, expression, scope) ==
    IF expression.kind = "string" /\ ~IsBlank(expression.text)
    THEN IF scope.kind \notin {"undefined", "object"}
         THEN [st EXCEPT !.result = Thrown("invalid scope", "scope")]
         ELSE CHOOSE nx \in
                 { EvalText(st, expression.text, scope.kind = "object", inst) :
                     inst \in {IF scope.kind = "object"
                                THEN Install(scope.entries, 1, EmptyScope)
                                ELSE [err |-> "", S |-> st.SCOPE]} } : TRUE
    ELSE IF scope.kind = "undefined" /\ expression.kind = "object"
    THEN IF st.TOKENS = nullTokens
         THEN [st EXCEPT !.result = Thrown("no expression to re-evaluate", "rebind")]
         ELSE CHOOSE nx \in
                 { EvalRebound(st, rb) : rb \in {Rebind(expression.entries, 1, st.SCOPE)} } : TRUE
    ELSE [st EXCEPT !.result = Thrown("invalid expression", "expression")]

(***************************************************************************)
(* The calls.  Expressions and ScopeEntries are the texts and the entries  *)
(* of the scope objects that the caller passes; a scope object has at most *)
(* MaxEntries entries.                                                     *)
(***************************************************************************)
MaxEntries == 2

Expressions ==
    { <<"x", "^", "y">>,
      <<"2", "x">>,
      <<"f", "(", "x", ")">>,
      <<"x", "+">>,
      <<"x", "#">> }

Value(id, n) == [id |-> id, val |-> [fun |-> "", dec |-> Frac(n, 1)]]
Function(id, fn) == [id |-> id, val |-> [fun |-> fn, dec |-> DecNaN]]
NotConstructible(id) == [id |-> id, val |-> [fun |-> "", dec |-> undefinedValue]]

\* The scope objects of the calls that install a scope.
Scopes ==
    { <<>>,
      <<Value(<<"x">>, 2), Value(<<"y">>, 3)>>,
      <<Function(<<"f">>, "abs"), Value(<<"x">>, -3)>>,
      <<Value(<<"x">>, 2), Value(<<"1">>, 3)>>,
      <<Value(<<"y">>, 3), NotConstructible(<<"x">>)>> }

\* The re-binding maps.
ScopeEntries ==
    { Value(<<"x">>, 4), Value(<<"y">>, -3), Function(<<"f">>, "max"),
      Function(<<"x">>, "max"), Value(<<"f">>, 2), Value(<<"z">>, 5),
      NotConstructible(<<"y">>) }

Maps ==
    { s \in UNION {[1..n -> ScopeEntries] : n \in 0..MaxEntries} :
        \A i, j \in 1..Len(s) : i # j => s[i].id # s[j].id }

\* The scope that a scope object describes, and a scope overridden by a
\* re-binding map, as the caller sees them.
MapOf(entries) ==
    [id \in {entries[k].id : k \in 1..Len(entries)} |->
        LET val == (CHOOSE k \in 1..Len(entries) : entries[k].id = id)
        IN  IF entries[val].val.fun # "" THEN [fun |-> entries[val].val.fun, dec |-> DecNaN]
            ELSE [fun |-> "", dec |-> entries[val].val.dec]]
Overrides(entries, B) ==
    \A k \in 1..Len(entries) :
        /\ entries[k].id \in DOMAIN B
        /\ (entries[k].val.fun # "") = (B[entries[k].id].fun # "")
        /\ entries[k].val.fun = "" => IsDecimal(entries[k].val.dec)
Override(B, entries) ==
    [id \in DOMAIN B |-> IF id \in DOMAIN MapOf(entries) THEN MapOf(entries)[id] ELSE B[id]]

\* The error that the first offending entry of a re-binding map asks for.
RECURSIVE Offence(_, _, _)
Offence(entries, k, S) ==
    IF k > Len(entries) THEN ""
    ELSE LET id == entries[k].id
             val == entries[k].val
         IN  IF id \notin DOMAIN S THEN "identifier not in scope"
             ELSE IF S[id].fun # "" /\ val.fun = "" THEN "must be a function"
             ELSE IF S[id].fun = "" /\ val.fun # "" THEN "must not be a function"
             ELSE IF val.fun = "" /\ ~IsDecimal(val.dec) THEN "DecimalError"
             ELSE Offence(entries, k + 1, S)

EvalInit ==
    /\ TOKENIZER = DEFAULT_TOKENIZER
    /\ TOKENS = nullTokens
    /\ SCOPE = EmptyScope
    /\ evalExpression = <<>>
    /\ result = [err |-> "", v |-> DecNaN, at |-> "init"]
    /\ entry = "none"
    /\ source = <<>> /\ bound = EmptyScope /\ tracking = FALSE
    /\ touched = {} /\ offence = "" /\ installed = EmptyScope

\* One call Decimal.eval(expression, scope): the state it leaves, with the
\* caller's history.
State ==
    [TOKENIZER |-> TOKENIZER, TOKENS |-> TOKENS, SCOPE |-> SCOPE,
     expression |-> evalExpression, result |-> result]

Call(form, expression, scope, nx) ==
    LET rebinds == form = "rebind" /\ tracking /\ Overrides(expression.entries, bound)
        begins == form = "scoped" /\ nx.result.err = ""
        goesOn == form = "string" /\ tracking /\ nx.result.err = ""
    IN  [ TOKENIZER |-> nx.TOKENIZER,
          TOKENS |-> nx.TOKENS,
          SCOPE |-> nx.SCOPE,
          expression |-> nx.expression,
          result |-> nx.result,
          entry |-> form,
          tracking |-> (rebinds \/ begins \/ goesOn),
          source |-> IF form \in {"string", "scoped"} THEN expression.text
                     ELSE IF rebinds THEN source ELSE <<>>,
          bound |-> IF begins THEN MapOf(scope.entries)
                    ELSE IF rebinds THEN Override(bound, expression.entries)
                    ELSE IF goesOn THEN bound ELSE EmptyScope,
          installed |-> IF form = "scoped" /\ nx.result.at # "scope"
                        THEN MapOf(scope.entries)
                        ELSE IF form = "rebind" /\ nx.result.at # "rebind"
                        THEN Override(installed, expression.entries)
                        ELSE installed,
          touched |-> IF rebinds THEN DOMAIN MapOf(expression.entries) ELSE {},
          offence |-> IF form = "rebind" THEN Offence(expression.entries, 1, SCOPE) ELSE "" ]

\* Decimal.eval(expression)
EvalString ==
    /\ \E e \in Expressions :
         \E ev \in {Eval(State, String(e), Undefined)} :
         \E nx \in {Call("string", String(e), Undefined, ev)} :
          /\ TOKENIZER' = nx.TOKENIZER /\ TOKENS' = nx.TOKENS /\ SCOPE' = nx.SCOPE
          /\ evalExpression' = nx.expression /\ result' = nx.result /\ entry' = nx.entry
          /\ tracking' = nx.tracking /\ source' = nx.source /\ bound' = nx.bound
          /\ touched' = nx.touched /\ offence' = nx.offence
          /\ installed' = nx.installed
    /\ UNCHANGED <<cvars, pvars>>

\* Decimal.eval(expression, scope)
EvalScoped ==
    /\ \E e \in Expressions, s \in Scopes :
         \E ev \in {Eval(State, String(e), Object(s))} :
         \E nx \in {Call("scoped", String(e), Object(s), ev)} :
          /\ TOKENIZER' = nx.TOKENIZER /\ TOKENS' = nx.TOKENS /\ SCOPE' = nx.SCOPE
          /\ evalExpression' = nx.expression /\ result' = nx.result /\ entry' = nx.entry
          /\ tracking' = nx.tracking /\ source' = nx.source /\ bound' = nx.bound
          /\ touched' = nx.touched /\ offence' = nx.offence
          /\ installed' = nx.installed
    /\ UNCHANGED <<cvars, pvars>>

\* Decimal.eval(scope)
ReEvaluate ==
    /\ \E s \in Maps :
         \E ev \in {Eval(State, Object(s), Undefined)} :
         \E nx \in {Call("rebind", Object(s), Undefined, ev)} :
          /\ TOKENIZER' = nx.TOKENIZER /\ TOKENS' = nx.TOKENS /\ SCOPE' = nx.SCOPE
          /\ evalExpression' = nx.expression /\ result' = nx.result /\ entry' = nx.entry
          /\ tracking' = nx.tracking /\ source' = nx.source /\ bound' = nx.bound
          /\ touched' = nx.touched /\ offence' = nx.offence
          /\ installed' = nx.installed
    /\ UNCHANGED <<cvars, pvars>>

\* Decimal.eval with arguments of other shapes: a blank or missing
\* expression, a scope that is not an object, a map together with a scope.
InvalidCalls ==
    { <<String(<<" ">>), Undefined>>, <<Other, Undefined>>,
      <<String(<<"x">>), Other>>, <<Object(<<>>), Object(<<>>)>> }
EvalInvalid ==
    /\ \E c \in InvalidCalls :
         \E ev \in {Eval(State, c[1], c[2])} :
         \E nx \in {Call("invalid", c[1], c[2], ev)} :
          /\ TOKENIZER' = nx.TOKENIZER /\ TOKENS' = nx.TOKENS /\ SCOPE' = nx.SCOPE
          /\ evalExpression' = nx.expression /\ result' = nx.result /\ entry' = nx.entry
          /\ tracking' = nx.tracking /\ source' = nx.source /\ bound' = nx.bound
          /\ touched' = nx.touched /\ offence' = nx.offence
          /\ installed' = nx.installed
    /\ UNCHANGED <<cvars, pvars>>

EvalNext ==
    \/ EvalString
    \/ EvalScoped
    \/ ReEvaluate
    \/ EvalInvalid

\* The codec at rest while the evaluator runs, and the reverse.
CodecIdle ==
    /\ x = Absent /\ buffer = <<>> /\ cpc = "init"
    /\ sign = 0 /\ exponent = 0 /\ digitsInReverse = <<>> /\ di = 0 /\ digits = <<>>
    /\ y = Absent /\ yBuffer = <<>>

\* A freshly constructed evaluator (lines 62-64), and no call given to it.
Fresh ==
    [TOKENIZER |-> DEFAULT_TOKENIZER, TOKENS |-> nullTokens, SCOPE |-> EmptyScope,
     expression |-> <<>>, result |-> [err |-> "", v |-> DecNaN, at |-> "init"]]
NoInput == [kind |-> "none", parts |-> <<>>, scope |-> <<>>]
ParseIdle == input = NoInput /\ output = Fresh /\ before = Fresh /\ ppc = "idle"

InitCodec == CodecInit /\ EvalInit /\ ParseIdle
InitEval == CodecIdle /\ EvalInit /\ ParseIdle

SpecCodec == InitCodec /\ [][CodecNext]_vars
SpecEval == InitEval /\ [][EvalNext]_vars

(***************************************************************************)
(* Claims about the evaluator, checked under SpecEval.                     *)
(***************************************************************************)
\* The call of this step threw during the installation of a scope.
FailedInstallation(r) ==
    r.at = "scope" /\ r.err \in {"invalid identifier", "DecimalError"}

\* C8: a call that raises an error after a successful call leaves the
\* stored token list and the stored scope as that call left them, a failed
\* scope installation excepted.
C8_ErrorLeavesStateUntouched ==
    [][(entry # "none" /\ result.err = ""
          /\ result'.err # "" /\ ~FailedInstallation(result'))
         => (TOKENS' = TOKENS /\ SCOPE' = SCOPE)]_vars

PowerOfXY == <<"x", "^", "y">>
XY(a, b) == MapOf(<<Value(<<"x">>, a), Value(<<"y">>, b)>>)

\* C9: after a successful evaluation of a text under a scope, every call
\* that passes only a re-binding map over existing names leaves the token
\* list as it is and returns what these tokens, which are those of the text,
\* evaluate to under the scope overridden by all the maps passed so far;
\* 'x^y' with {x:2, y:3} gives 8, then with y = -3 gives 0.125, then with
\* x = 4 gives 0.015625.
C9_ReEvaluates ==
    [][(tracking' /\ entry' = "rebind")
         => /\ TOKENS' = TOKENS
            /\ evalExpression' = evalExpression
            /\ SCOPE' = bound'
            /\ Tokenize(source', TokenizerOf(bound'), bound').ok
            /\ TOKENS' = Tokenize(source', TokenizerOf(bound'), bound').tokens
            /\ result' = Run(Tokenize(source', TokenizerOf(bound'), bound').tokens, bound')
            /\ (source' = PowerOfXY /\ bound' = XY(2, 3)) => result'.v = Frac(8, 1)
            /\ (source' = PowerOfXY /\ bound' = XY(2, -3)) => result'.v = Frac(1, 8)
            /\ (source' = PowerOfXY /\ bound' = XY(4, -3)) => result'.v = Frac(1, 64)]_vars

\* 'x^y' under {x:2, y:3}, y re-bound to -3 by an earlier call and x to 4 by
\* the last one: 0.015625.
C9_Witness ==
    /\ tracking /\ entry = "rebind" /\ source = PowerOfXY
    /\ touched = {<<"x">>} /\ bound = XY(4, -3)
    /\ result.err = "" /\ result.v = Frac(1, 64)

IsFunctionSlot(S, id) == S[id].fun # ""

Names(B) == IF DOMAIN B = {} THEN {<<"0">>} ELSE DOMAIN B
FreshOutcome(text, B) ==
    IF Tokenize(text, Names(B), B).ok THEN Run(Tokenize(text, Names(B), B).tokens, B)
    ELSE [err |-> "unknown symbol", v |-> DecNaN, at |-> "tokenize"]

\* C11: a call with a text and no scope is tokenized and evaluated with the
\* bindings of the most recent scope installation as re-bound since, and a
\* call with a scope object is tokenized and evaluated with the bindings of
\* that object alone.
C11_ScopeStaysInForce ==
    [][/\ entry' = "string" => result' = FreshOutcome(source', installed)
       /\ (entry' = "scoped" /\ result'.at # "scope")
            => result' = FreshOutcome(source', installed')]_vars

\* The part of C11 that the code keeps: while every call since a scoped call
\* succeeded, the scope and the tokenizer are those of that call as re-bound.
C11_InForceWhileCallsSucceed ==
    [][/\ (tracking /\ entry' = "string")
            => /\ SCOPE' = bound /\ TOKENIZER' = TOKENIZER
               /\ result' = FreshOutcome(source', bound)
       /\ (entry' = "scoped" /\ result'.at # "scope")
            => /\ SCOPE' = installed' /\ TOKENIZER' = Names(installed')
               /\ result' = FreshOutcome(source', installed')]_vars

\* C19: in every reachable state the identifiers that the tokenizer
\* recognises are the names bound in the stored scope (the default tokenizer
\* recognises none).
C19_TokenizerMatchesScope == TOKENIZER \ DEFAULT_TOKENIZER = DOMAIN SCOPE

(***************************************************************************)
(* Single calls on a fresh evaluator, over families of expressions.       *)
(***************************************************************************)
RECURSIVE Flatten(_)
Flatten(parts) == IF parts = <<>> THEN <<>> ELSE Head(parts) \o Flatten(Tail(parts))

Given(kind, parts, scope) == [kind |-> kind, parts |-> parts, scope |-> scope]

\* Number literals, parentheses and operators.
BinaryOperators ==
    { <<"^">>, <<"*">>, <<"/">>, <<"%">>, <<"+">>, <<"-">>,
      <<">">>, <<">", "=">>, <<"<">>, <<"<", "=">>, <<"=", "=">>, <<"!", "=">>,
      <<"&", "&">>, <<"|", "|">> }
UnaryOperators == { <<"!">>, <<"+">>, <<"-">> }
Lit(n) == <<CHOOSE c \in DigitChars : DigitVal(c) = n>>
\* Operand triples and pairs; 8^4^2 is left out, being beyond the integers
\* the checker computes with.
Triples == { <<0, 3, 2>>, <<2, 3, 2>>, <<8, 4, 2>> }
Pairs == { <<0, 3>>, <<2, 2>>, <<3, 2>> }
Flat ==
    { Given("flat", <<Lit(t[1]), o[1], Lit(t[2]), o[2], Lit(t[3])>>, <<>>) :
        t \in Triples, o \in BinaryOperators \X BinaryOperators }
    \ { Given("flat", <<Lit(8), <<"^">>, Lit(4), <<"^">>, Lit(2)>>, <<>>) }
Grouped ==
    { Given("left", <<<<"(">>, Lit(t[1]), o[1], Lit(t[2]), <<")">>, o[2], Lit(t[3])>>, <<>>) :
        t \in {<<2, 3, 2>>}, o \in BinaryOperators \X BinaryOperators }
    \cup
    { Given("right", <<Lit(t[1]), o[1], <<"(">>, Lit(t[2]), o[2], Lit(t[3]), <<")">>>>, <<>>) :
        t \in {<<2, 3, 2>>}, o \in BinaryOperators \X BinaryOperators }
Signed ==
    { Given("prefixed", <<u, Lit(t[1]), o, Lit(t[2])>>, <<>>) :
        u \in UnaryOperators, t \in Pairs, o \in BinaryOperators }
    \cup
    { Given("operand", <<Lit(t[1]), o, u, Lit(t[2])>>, <<>>) :
        u \in UnaryOperators, t \in Pairs, o \in BinaryOperators }

\* Products written with and without '*', under scopes binding x.
XValues == {4, -3}
XScope(n) == <<Value(<<"x">>, n)>>
Twice ==
    { Given("twice", q, XScope(n)) :
        q \in { <<Lit(2), <<"x">>>>,
                <<Lit(2), <<"*">>, <<"x">>>>,
                <<<<"(">>, Lit(2), <<")">>, <<"(">>, <<"x">>, <<")">>>> },
        n \in XValues }
Half ==
    { Given("half", q, XScope(n)) :
        q \in { <<Lit(1), <<"/">>, Lit(2), <<"x">>>>,
                <<<<"(">>, Lit(1), <<"/">>, Lit(2), <<")">>, <<"*">>, <<"x">>>> },
        n \in XValues }

\* Every text of up to MaxPieces pieces, under a scope binding a variable x
\* and a function f.
MaxPieces == 3
Alphabet ==
    { Lit(2), <<"x">>, <<"f">>, <<"(">>, <<")">>, <<"!">>, <<"!", "=">>, <<"*">>, <<"sqrt">> }
Pieces ==
    { Given("pieces", q, <<Value(<<"x">>, 4), Function(<<"f">>, "abs")>>) :
        q \in UNION { [1..n -> Alphabet] : n \in 1..MaxPieces } }

\* Texts with blanks and with '**', under the scope { x: 1, y: 2 }.
Written ==
    { Given("written", q, <<Value(<<"x">>, 1), Value(<<"y">>, 2)>>) :
        q \in { <<Lit(2), <<"x">>, <<"(">>, Lit(3), <<"x">>, <<" ">>, <<"+">>, <<" ">>,
                  Lit(4), <<"y">>, <<")">>>>,
                <<Lit(2), <<"x">>, <<"(">>, Lit(3), <<"x">>, <<"+">>, Lit(4), <<"y">>, <<")">>>>,
                <<<<"x">>, <<" ">>, <<"*">>, <<" ">>, <<"y">>>>,
                <<Lit(2), <<"*", "*">>, Lit(3)>> } }

\* a && b and a || b, b a number or a call of a function that throws: with
\* f: x => x.abs(), the call f() throws a TypeError.
Logical ==
    { Given("logical", <<Lit(a), o>> \o b, <<Function(<<"f">>, "abs")>>) :
        a \in {0, 2}, o \in {<<"&", "&">>, <<"|", "|">>},
        b \in { <<Lit(0)>>, <<Lit(3)>>, <<Lit(4)>>, <<<<"f">>, <<"(">>, <<")">>>> } }

\* Every text of up to MaxPieces pieces, well formed or not, under a scope
\* binding a function f and a variable named end.
Symbols ==
    { Lit(2), <<"(">>, <<")">>, <<"f">>, <<",">>, <<"+">>, <<"e", "n", "d">>, <<" ">> }
Syntax ==
    { Given("syntax", q, <<Function(<<"f">>, "max"), Value(<<"e", "n", "d">>, 1)>>) :
        q \in UNION { [1..n -> Symbols] : n \in 1..MaxPieces } }

\* Unary minus on a variable, on a literal and on what other operators
\* hand on, under the scope { x: 2 }.
Negated ==
    { Given("negated", q, XScope(2)) :
        q \in { <<<<"-">>, <<"x">>>>,
                <<<<"-">>, Lit(2)>>,
                <<<<"-">>, <<"(">>, <<"x">>, <<")">>>>,
                <<<<"-">>, <<"+">>, <<"x">>>>,
                <<<<"-">>, <<"-">>, <<"x">>>>,
                <<<<"x">>, <<"*">>, <<"-">>, <<"x">>>>,
                <<<<"-">>, <<"x">>, <<"+">>, <<"x">>>>,
                <<<<"-">>, <<"(">>, Lit(0), <<"|", "|">>, <<"x">>, <<")">>>>,
                <<<<"-">>, <<"(">>, <<"x">>, <<"&", "&">>, Lit(3), <<")">>>>,
                <<<<"-">>, <<"x">>, <<"^">>, Lit(2)>> } }

Inputs ==
    Flat \cup Grouped \cup Signed \cup Twice \cup Half \cup Pieces \cup Written \cup Logical
         \cup Syntax \cup Negated

ParseInit == input \in Inputs /\ output = Fresh /\ before = Fresh /\ ppc = "given"

\* Decimal.eval(expression, scope) on the fresh evaluator.
EvalInput ==
    /\ ppc = "given"
    /\ \E ev \in {Eval(Fresh, String(Flatten(input.parts)), Object(input.scope))} :
          output' = ev
    /\ ppc' = "returned"
    /\ UNCHANGED <<input, before, cvars, evars>>

\* Decimal.eval({}) after it: the stored tokens evaluated once more.
EvalAgain ==
    /\ ppc = "returned"
    /\ \E ev \in {Eval(output, Object(<<>>), Undefined)} :
          output' = ev
    /\ before' = output
    /\ ppc' = "again"
    /\ UNCHANGED <<input, cvars, evars>>

ParseNext ==
    \/ EvalInput
    \/ EvalAgain

InitParse == CodecIdle /\ EvalInit /\ ParseInit
SpecParse == InitParse /\ [][ParseNext]_vars

Returns(v) == [err |-> "", v |-> v, at |-> "return"]

(***************************************************************************)
(* Claims about single calls, checked under SpecParse.                    *)
(***************************************************************************)
\* The precedence table of C12, tightest first, and the host computation of
\* one operator.
Level(op) ==
    CASE op = <<"^">> -> 8
      [] op \in {<<"*">>, <<"/">>, <<"%">>} -> 6
      [] op \in {<<"+">>, <<"-">>} -> 5
      [] op \in {<<">">>, <<">", "=">>, <<"<">>, <<"<", "=">>} -> 4
      [] op \in {<<"=", "=">>, <<"!", "=">>} -> 3
      [] op = <<"&", "&">> -> 2
      [] op = <<"|", "|">> -> 1
Num(piece) == Frac(DigitVal(piece[1]), 1)
HostBinary(op, a, b) ==
    CASE op = <<"^">> -> pow(a, b)
      [] op = <<"*">> -> times(a, b)
      [] op = <<"/">> -> div(a, b)
      [] op = <<"%">> -> mod(a, b)
      [] op = <<"+">> -> plus(a, b)
      [] op = <<"-">> -> minus(a, b)
      [] op = <<">">> -> IF gt(a, b) THEN Frac(1, 1) ELSE Frac(0, 1)
      [] op = <<">", "=">> -> IF gte(a, b) THEN Frac(1, 1) ELSE Frac(0, 1)
      [] op = <<"<">> -> IF lt(a, b) THEN Frac(1, 1) ELSE Frac(0, 1)
      [] op = <<"<", "=">> -> IF lte(a, b) THEN Frac(1, 1) ELSE Frac(0, 1)
      [] op = <<"=", "=">> -> IF eq(a, b) THEN Frac(1, 1) ELSE Frac(0, 1)
      [] op = <<"!", "=">> -> IF eq(a, b) THEN Frac(0, 1) ELSE Frac(1, 1)
      [] op = <<"&", "&">> -> IF isZero(a) THEN a ELSE b
      [] op = <<"|", "|">> -> IF isZero(a) THEN b ELSE a
HostUnary(u, a) ==
    CASE u = <<"!">> -> IF isZero(a) THEN Frac(1, 1) ELSE Frac(0, 1)
      [] u = <<"+">> -> a
      [] u = <<"-">> -> negated(a)
LeftFirst(op1, op2) ==
    Level(op1) > Level(op2) \/ (Level(op1) = Level(op2) /\ op1 # <<"^">>)
TreeValue(g) ==
    LET q == g.parts
    IN  CASE g.kind = "flat" ->
               IF LeftFirst(q[2], q[4])
               THEN HostBinary(q[4], HostBinary(q[2], Num(q[1]), Num(q[3])), Num(q[5]))
               ELSE HostBinary(q[2], Num(q[1]), HostBinary(q[4], Num(q[3]), Num(q[5])))
          [] g.kind = "left" ->
               HostBinary(q[6], HostBinary(q[3], Num(q[2]), Num(q[4])), Num(q[7]))
          [] g.kind = "right" ->
               HostBinary(q[2], Num(q[1]), HostBinary(q[5], Num(q[4]), Num(q[6])))
          [] g.kind = "prefixed" ->
               IF Level(q[3]) < Level(<<"^">>)
               THEN HostBinary(q[3], HostUnary(q[1], Num(q[2])), Num(q[4]))
               ELSE HostUnary(q[1], HostBinary(q[3], Num(q[2]), Num(q[4])))
          [] g.kind = "operand" ->
               HostBinary(q[2], Num(q[1]), HostUnary(q[3], Num(q[4])))
OperatorKinds == {"flat", "left", "right", "prefixed", "operand"}

\* C12: an expression over number literals, parentheses and operators gives
\* the host computation of the operator tree that the precedence table and
\* the associativity rules fix.
C12_PrecedenceParity ==
    (ppc = "returned" /\ input.kind \in OperatorKinds)
        => output.result = Returns(TreeValue(input))

\* 2^3^2 = 512, -2^2 = -4 and 8/4/2 = 1.
C12_Witness ==
    /\ ppc = "returned"
    /\ input.parts = <<Lit(2), <<"^">>, Lit(3), <<"^">>, Lit(2)>>
    /\ output.result = Returns(Frac(512, 1))

\* The text written with explicit '*': a '*' after each number, variable or
\* ')' that is directly followed by an identifier, a '(', a square root sign
\* or a unary '!'.
Multiplies(piece, B) ==
    \/ piece[1] \in DigitChars
    \/ piece \in DOMAIN B /\ B[piece].fun = ""
    \/ piece = <<")">>
Multiplied(piece, B) == piece \in DOMAIN B \cup {<<"(">>, <<"sqrt">>, <<"!">>}
RECURSIVE Stars(_, _)
Stars(parts, B) ==
    IF Len(parts) < 2 THEN parts
    ELSE IF Multiplies(parts[1], B) /\ Multiplied(parts[2], B)
    THEN <<parts[1], <<"*">>>> \o Stars(Tail(parts), B)
    ELSE <<parts[1]>> \o Stars(Tail(parts), B)
ExplicitTokens(g) ==
    Tokenize(Flatten(Stars(g.parts, MapOf(g.scope))), Names(MapOf(g.scope)), MapOf(g.scope)).tokens
ImplicitKinds == {"twice", "half", "pieces"}

\* C13: '2x', '2*x' and '(2)(x)' give 2 times x, '1/2x' and '(1/2)*x' give
\* half of x, the token list of a text is that of the text written with
\* explicit '*', and no '*' token follows a function identifier that no '*'
\* follows in the text.
C13_ImplicitMultiplication ==
    (ppc = "returned" /\ input.kind \in ImplicitKinds) =>
        /\ output.TOKENS = ExplicitTokens(input)
        /\ input.kind = "twice" =>
              output.result = Returns(times(Frac(2, 1), MapOf(input.scope)[<<"x">>].dec))
        /\ input.kind = "half" =>
              output.result = Returns(times(Frac(1, 2), MapOf(input.scope)[<<"x">>].dec))
        /\ \A k \in 1..(Len(output.TOKENS) - 1) :
              (output.TOKENS[k].type = "func" /\ output.TOKENS[k + 1] = OpToken(<<"*">>))
                  => \E j \in 1..(Len(input.parts) - 1) :
                        input.parts[j] = <<"f">> /\ input.parts[j + 1] = <<"*">>

\* '(2)(x)' with x = -3 gives -6 from the tokens ( 2 ) * ( x ) end.
C13_Witness ==
    /\ ppc = "returned"
    /\ input.parts = <<<<"(">>, Lit(2), <<")">>, <<"(">>, <<"x">>, <<")">>>>
    /\ Len(output.TOKENS) = 8 /\ output.TOKENS[4] = OpToken(<<"*">>)
    /\ output.result = Returns(Frac(-6, 1))

\* C14: after a text is tokenized, Decimal.eval.expression is the text with
\* a '*' at each implicit multiplication and nothing else added or removed.
C14_ExpressionField ==
    (ppc = "returned" /\ input.kind = "written" /\ output.result.at # "tokenize")
        => output.expression = Flatten(Stars(input.parts, MapOf(input.scope)))

\* C15: the right operand of '&&' and '||' is evaluated whatever the left
\* one is, so that a function called there is invoked (and its exception
\* propagates) even when its value would be discarded; 'a && b' is a if a is
\* zero and b otherwise, 'a || b' is b if a is zero and a otherwise.
C15_NoShortCircuit ==
    (ppc = "returned" /\ input.kind = "logical") =>
        LET a == Num(input.parts[1])
            and == input.parts[2] = <<"&", "&">>
        IN  IF Len(input.parts) > 3
            THEN output.result = [err |-> "TypeError", v |-> DecNaN, at |-> "evaluate"]
            ELSE output.result =
                    Returns(IF and THEN (IF a.n = 0 THEN a ELSE Num(input.parts[3]))
                            ELSE (IF a.n = 0 THEN Num(input.parts[3]) ELSE a))

\* '0 && f()' throws what f throws, though 0 decides the result.
C15_Witness ==
    /\ ppc = "returned"
    /\ input.parts = <<Lit(0), <<"&", "&">>, <<"f">>, <<"(">>, <<")">>>>
    /\ output.result.err = "TypeError"

\* The index of the current token when the top-level evaluate(0) returns.
Cursor == evaluate(output.TOKENS, output.SCOPE, 0, 0).i

\* C17: a call returns a result only when the whole token list was consumed,
\* the current token then being the 'end' sentinel that closes the list.
C17_WholeListConsumed ==
    (ppc = "returned" /\ input.kind = "syntax" /\ output.result.err = "")
        => Cursor = Len(output.TOKENS) - 1

\* The text was tokenized and handed to evaluate.
Tokenized == ppc = "returned" /\ output.result.at \in {"evaluate", "return"}

\* C20: a token list that the tokenizer produced ends in the 'end' sentinel
\* and holds no other, and the cursor of the parser stays on or before the
\* sentinel, whether evaluation ends with a result or with an error.
C20_CursorStaysInList ==
    Tokenized =>
        /\ \A k \in 1..Len(output.TOKENS) :
              output.TOKENS[k].type = "end" <=> k = Len(output.TOKENS)
        /\ Cursor <= Len(output.TOKENS) - 1

\* 'f(' and '2+' end on the sentinel with 'unexpected end'.
C20_Witness ==
    /\ Tokenized
    /\ input.parts = <<<<"f">>, <<"(">>>>
    /\ output.result.err = "unexpected end"
    /\ Cursor = Len(output.TOKENS) - 1

\* C18: evaluation leaves the stored tokens and the values bound in the
\* scope as tokenization and installation made them, and evaluating the same
\* tokens again under the same scope gives the same result.
C18_EvaluationKeepsTokensAndScope ==
    /\ (ppc \in {"returned", "again"} /\ output.result.at \in {"evaluate", "return"}) =>
          /\ output.SCOPE = MapOf(input.scope)
          /\ output.TOKENS =
                Tokenize(Flatten(input.parts), Names(MapOf(input.scope)), MapOf(input.scope)).tokens
    /\ (ppc = "again" /\ before.result.at \in {"evaluate", "return"}) => output = before

\* '-x' with { x: 2 } gives -2 twice and x stays 2.
C18_Witness ==
    /\ ppc = "again"
    /\ input.parts = <<<<"-">>, <<"x">>>>
    /\ before.result = Returns(Frac(-2, 1))
    /\ output.result = Returns(Frac(-2, 1))
    /\ output.SCOPE[<<"x">>].dec = Frac(2, 1)

=============================================================================
